---- MODULE Spec2Model ----
(***************************************************************************)
(* A model of aether-config: the ConsensusNode role/term state machine     *)
(* (consensus.py), the three storage backends (storage.py), the            *)
(* ConfigManager with its watcher queues (core.py) and the two writing     *)
(* endpoints of the admin API (api.py).                                    *)
(*                                                                         *)
(* Three specifications:                                                   *)
(*   SpecCluster  a cluster of ConsensusNodes, each running start(), its   *)
(*                election timer, _trigger_election and the heartbeat loop *)
(*   Spec         one process: a ConsensusNode, a ConfigManager and the    *)
(*                API handlers, all built over the same storage backend    *)
(*   SpecNode     the ConsensusNode of that process and its storage alone  *)
(***************************************************************************)
EXTENDS Integers, Sequences, FiniteSets, TLC

\* ------------------------------------------------------------ bounds
MaxNodes == 3        \* size of the largest cluster
MaxHeartbeats == 1   \* _send_heartbeat calls followed per node
MaxSaves == 2        \* successful save_config calls followed
MaxWatchers == 2     \* queues handed out by watch_config
MaxTerm == 2         \* terms followed per node

\* ------------------------------------------------------------ values
\* NodeRole (consensus.py:13-17)
LEADER == "leader"
FOLLOWER == "follower"
CANDIDATE == "candidate"
NodeRole == {LEADER, FOLLOWER, CANDIDATE}

\* Python's None for voted_for / leader_id; node ids are 1..MaxNodes
None == 0
Nodes == 1..MaxNodes

\* the clusters a node can be constructed in: members 1..k, every member's
\* peers being the other members
Clusters == {1..k : k \in 1..MaxNodes}

\* the process Spec follows
Local == 1

Names == {"a", "b"}
Data == {"d1", "d2"}
\* the version fields callers use: 1 is what create_config writes
Versions == {1, 2}
\* ConfigSchema (core.py:13-21); created_at plays no part in any operation
ConfigSchema == [name : Names, version : Versions, data : Data]

Backends == {"memory", "redis", "postgres"}

\* what an awaited call gives back: a value, or the exception it raised
Ok(c) == [ok |-> TRUE, value |-> c]
Raise(e) == [ok |-> FALSE, error |-> e]

VARIABLES
    \* ConsensusNode fields, per node
    peers, role, current_term, voted_for, leader_id,
    \* where each node's start() coroutine stands:
    \*   "init" constructed, "timer" asleep in _start_election_timer,
    \*   "gather" awaiting the vote requests, "heartbeat" asleep in _start_heartbeat
    pc,
    \* history: <<peer, term, candidate>> for every True a _request_vote returned
    granted,
    \* history: number of _send_heartbeat calls of each node
    heartbeats,
    \* history: what the gather of each node's last election returned, peer -> answer
    results,
    \* the network: the nodes cut off from every other node (fixed for a run)
    isolated,
    \* which StorageBackend the process was built with
    backend,
    \* InMemoryStorage._configs: name -> list of ConfigSchema
    configs,
    \* RedisStorage: the values stored under the keys "config:{name}:{version}",
    \* one record for each key present
    redis,
    \* PostgresStorage: the rows of table configs, primary key (name, version)
    rows,
    \* ConfigManager._watchers: name -> list of queues; a queue is
    \* [items: what was put, since: history, the number of commits for the name
    \* when the queue was handed out]
    watchers,
    \* history: the records save_config stored, in commit order
    log,
    \* history: the last call that returned, [op, ret]
    last

consensusVars == <<peers, role, current_term, voted_for, leader_id, pc, granted, heartbeats,
                   results, isolated>>
storeVars == <<backend, configs, redis, rows, watchers, log>>
processVars == <<backend, configs, redis, rows, watchers, log, last>>
vars == <<peers, role, current_term, voted_for, leader_id, pc, granted, heartbeats,
          results, isolated, backend, configs, redis, rows, watchers, log, last>>

\* ------------------------------------------------------------ ConsensusNode

\* ConsensusNode.__init__ for every member of the cluster
ConsensusNode_init(members) ==
    /\ peers = [n \in Nodes |-> IF n \in members THEN members \ {n} ELSE {}]
    /\ role = [n \in Nodes |-> FOLLOWER]
    /\ current_term = [n \in Nodes |-> 0]
    /\ voted_for = [n \in Nodes |-> None]
    /\ leader_id = [n \in Nodes |-> None]
    /\ pc = [n \in Nodes |-> IF n \in members THEN "init" ELSE "absent"]
    /\ granted = {}
    /\ heartbeats = [n \in Nodes |-> 0]
    /\ results = [n \in Nodes |-> <<>>]

\* _request_vote: the stub answers True for every peer; it goes through no
\* transport, so whether the peer can be reached plays no part
request_vote(n, peer) == Ok(TRUE)

\* start(): enters the election timer loop when the role is FOLLOWER
start(n) ==
    /\ pc[n] = "init"
    /\ pc' = [pc EXCEPT ![n] = IF role[n] = FOLLOWER THEN "timer" ELSE "returned"]
    /\ UNCHANGED <<peers, role, current_term, voted_for, leader_id, granted, heartbeats>>
    /\ UNCHANGED <<results, isolated>>
    /\ UNCHANGED processVars

\* _trigger_election with "current_term -= 1" for "current_term += 1"
trigger_election_begin_decrement(n) ==
    /\ current_term' = [current_term EXCEPT ![n] = @ - 1]
    /\ role' = [role EXCEPT ![n] = CANDIDATE]
    /\ voted_for' = [voted_for EXCEPT ![n] = n]
    /\ pc' = [pc EXCEPT ![n] = "gather"]
    /\ UNCHANGED <<peers, leader_id, granted, heartbeats, results, isolated>>

\* _trigger_election up to its first suspension (the gather of the vote requests)
trigger_election_begin(n) ==
    /\ current_term' = [current_term EXCEPT ![n] = @ + 1]
    /\ role' = [role EXCEPT ![n] = CANDIDATE]
    /\ voted_for' = [voted_for EXCEPT ![n] = n]
    /\ pc' = [pc EXCEPT ![n] = "gather"]
    /\ UNCHANGED <<peers, leader_id, granted, heartbeats, results, isolated>>

\* one turn of the loop of _start_election_timer: the sleep ends, and a
\* FOLLOWER triggers an election; any other role goes back to sleep
election_timer_expiry(n) ==
    /\ pc[n] = "timer"
    /\ IF role[n] = FOLLOWER
       THEN current_term[n] < MaxTerm /\ trigger_election_begin(n)
       ELSE UNCHANGED consensusVars
    /\ UNCHANGED processVars

\* votes_received counting every truthy result ("if r")
votes_received_truthy(res) == Cardinality({p \in DOMAIN res : res[p] # Ok(FALSE)})

\* votes_received: the results that are the bool True ("isinstance(r, bool)
\* and r"); an exception gathered with return_exceptions=True is no bool
votes_received(res) == Cardinality({p \in DOMAIN res : res[p] = Ok(TRUE)})

\* the test "votes_received > len(self.peers) // 2"
majority(n, votes) == votes > Cardinality(peers[n]) \div 2

\* _trigger_election from the return of gather with the answers res: count
\* the votes, and on a majority become LEADER and enter _start_heartbeat
\* (never leaving the lock)
trigger_election_count(n, res) ==
    /\ pc[n] = "gather"
    /\ results' = [results EXCEPT ![n] = res]
    /\ granted' = granted \cup
           {<<p, current_term[n], n>> : p \in {q \in DOMAIN res : res[q] = Ok(TRUE)}}
    /\ IF majority(n, votes_received(res))
       THEN /\ role' = [role EXCEPT ![n] = LEADER]
            /\ leader_id' = [leader_id EXCEPT ![n] = n]
            /\ pc' = [pc EXCEPT ![n] = "heartbeat"]
       ELSE /\ pc' = [pc EXCEPT ![n] = "timer"]
            /\ UNCHANGED <<role, leader_id>>
    /\ UNCHANGED <<peers, current_term, voted_for, heartbeats, isolated>>
    /\ UNCHANGED processVars

\* _trigger_election from the return of gather, the peers answering as
\* _request_vote does
trigger_election_finish(n) ==
    trigger_election_count(n, [p \in peers[n] |-> request_vote(n, p)])

\* what gather(..., return_exceptions=True) can hold for one vote request:
\* a grant, a denial, or the exception the request raised
Answers == {Ok(TRUE), Ok(FALSE), Raise("TimeoutError")}

\* _trigger_election from the return of gather, the peers answering in any way
trigger_election_answers(n) ==
    \E res \in [peers[n] -> Answers] : trigger_election_count(n, res)

\* the handling of a message of a higher term: adopt the term, clear
\* voted_for, revert to FOLLOWER; one step, the loops of the node going on
step_down(n, term) ==
    /\ pc[n] \in {"timer", "gather", "heartbeat"}
    /\ term > current_term[n]
    /\ current_term' = [current_term EXCEPT ![n] = term]
    /\ voted_for' = [voted_for EXCEPT ![n] = None]
    /\ role' = [role EXCEPT ![n] = FOLLOWER]
    /\ UNCHANGED <<peers, leader_id, pc, granted, heartbeats, results, isolated>>
    /\ UNCHANGED processVars

\* one turn of the loop of _start_heartbeat: the sleep ends, _send_heartbeat
\* is called, and the loop test decides whether to go on
send_heartbeat(n) ==
    /\ pc[n] = "heartbeat"
    /\ heartbeats[n] < MaxHeartbeats
    /\ heartbeats' = [heartbeats EXCEPT ![n] = @ + 1]
    /\ pc' = [pc EXCEPT ![n] = IF role[n] = LEADER THEN "heartbeat" ELSE "timer"]
    /\ UNCHANGED <<peers, role, current_term, voted_for, leader_id, granted>>
    /\ UNCHANGED <<results, isolated>>
    /\ UNCHANGED processVars

\* ------------------------------------------------------------ storage backends

\* the records of a keyed store (Redis keys, Postgres rows) for one name
OfName(store, name) == {r \in store : r.name = name}
\* the key "config:{name}:{version}" / the primary key (name, version)
SameKey(r, c) == r.name = c.name /\ r.version = c.version
\* SET key value / INSERT ... ON CONFLICT (name, version) DO UPDATE SET data
Upsert(store, c) == {r \in store : ~SameKey(r, c)} \cup {c}
MaxOf(S) == CHOOSE x \in S : \A y \in S : y <= x

\* InMemoryStorage.save_config: append to the list of the name
InMemoryStorage_save_config(c) ==
    /\ configs' = [configs EXCEPT ![c.name] = Append(@, c)]
    /\ UNCHANGED <<redis, rows>>

\* RedisStorage.save_config: redis.set(key, config.json())
RedisStorage_save_config(c) ==
    /\ redis' = Upsert(redis, c)
    /\ UNCHANGED <<configs, rows>>

\* PostgresStorage.save_config: the upsert on (name, version)
PostgresStorage_save_config(c) ==
    /\ rows' = Upsert(rows, c)
    /\ UNCHANGED <<configs, redis>>

\* get_latest_config with the index 0 for -1
InMemoryStorage_get_latest_config_first(name) ==
    IF configs[name] = <<>>
    THEN Raise("KeyError")
    ELSE Ok(configs[name][1])

\* InMemoryStorage.get_latest_config
InMemoryStorage_get_latest_config(name) ==
    IF configs[name] = <<>>
    THEN Raise("KeyError")
    ELSE Ok(configs[name][Len(configs[name])])

\* InMemoryStorage.get_config_by_version: the version is used as a Python list
\* index (a negative one counts from the end of the list)
InMemoryStorage_get_config_by_version(name, version) ==
    LET l == configs[name]
    IN IF l = <<>> \/ version >= Len(l) THEN Raise("KeyError")
       ELSE IF version >= 0 THEN Ok(l[version + 1])
       ELSE IF -version <= Len(l) THEN Ok(l[Len(l) + version + 1])
       ELSE Raise("IndexError")

\* list_config_versions listing the version fields of the records
InMemoryStorage_list_config_versions_fields(name) ==
    [i \in 1..Len(configs[name]) |-> configs[name][i].version]

\* InMemoryStorage.list_config_versions: range(len(list))
InMemoryStorage_list_config_versions(name) ==
    [i \in 1..Len(configs[name]) |-> i - 1]

\* RedisStorage.get_latest_config / PostgresStorage.get_latest_config: the
\* record of the largest version
Keyed_get_latest_config(store, name) ==
    IF OfName(store, name) = {}
    THEN Raise("KeyError")
    ELSE Ok(CHOOSE r \in OfName(store, name) :
                r.version = MaxOf({q.version : q \in OfName(store, name)}))

\* RedisStorage.get_config_by_version / PostgresStorage.get_config_by_version
Keyed_get_config_by_version(store, name, version) ==
    IF \E r \in OfName(store, name) : r.version = version
    THEN Ok(CHOOSE r \in OfName(store, name) : r.version = version)
    ELSE Raise("KeyError")

\* sorted(versions): the ascending list of a set of integers
Sorted(S) ==
    CHOOSE q \in [1..Cardinality(S) -> S] :
        \A i \in 1..(Cardinality(S) - 1) : q[i] < q[i + 1]

\* RedisStorage.list_config_versions / PostgresStorage.list_config_versions:
\* the version of every key (row) of the name, ascending
Keyed_list_config_versions(store, name) ==
    Sorted({r.version : r \in OfName(store, name)})

\* the backend's store, for the keyed backends
Keyed == IF backend = "redis" THEN redis ELSE rows

\* StorageBackend.save_config of the backend in use; ok = FALSE is a call the
\* backend's client fails (connection lost): it raises and stores nothing.
\* InMemoryStorage.save_config has no failing path.
save_config(c, ok) ==
    /\ ok = FALSE => backend # "memory"
    /\ IF ok
       THEN /\ Len(log) < MaxSaves
            /\ CASE backend = "memory" -> InMemoryStorage_save_config(c)
                 [] backend = "redis" -> RedisStorage_save_config(c)
                 [] backend = "postgres" -> PostgresStorage_save_config(c)
            /\ log' = Append(log, c)
       ELSE UNCHANGED <<configs, redis, rows, log>>
    /\ UNCHANGED backend

\* StorageBackend.get_latest_config of the backend in use
get_latest_config(name) ==
    IF backend = "memory"
    THEN InMemoryStorage_get_latest_config(name)
    ELSE Keyed_get_latest_config(Keyed, name)

\* StorageBackend.get_config_by_version of the backend in use
get_config_by_version(name, version) ==
    IF backend = "memory"
    THEN InMemoryStorage_get_config_by_version(name, version)
    ELSE Keyed_get_config_by_version(Keyed, name, version)

\* StorageBackend.list_config_versions of the backend in use
list_config_versions(name) ==
    IF backend = "memory"
    THEN InMemoryStorage_list_config_versions(name)
    ELSE Keyed_list_config_versions(Keyed, name)

\* history: the records committed for one name, in commit order
Commits(name) == SelectSeq(log, LAMBDA r : r.name = name)

\* ------------------------------------------------------------ ConfigManager

\* asyncio.Queue.put on every queue of the name (unbounded queues: no put waits)
Notify(schema) ==
    [watchers EXCEPT ![schema.name] =
        [i \in DOMAIN @ |-> [@[i] EXCEPT !.items = Append(@, schema)]]]

\* set_config with queues made by asyncio.Queue(maxsize=1): the put on a queue
\* that holds an item waits for a reader
set_config_body_bounded(schema, ok) ==
    /\ save_config(schema, ok)
    /\ ok => \A i \in DOMAIN watchers[schema.name] :
                 watchers[schema.name][i].items = <<>>
    /\ watchers' = IF ok THEN Notify(schema) ELSE watchers

\* set_config with the notification ahead of the save
set_config_body_notify_first(schema, ok) ==
    /\ save_config(schema, ok)
    /\ watchers' = Notify(schema)

\* ConfigManager.set_config, as called from inside another handler: save, then
\* notify the watchers of the name; a failing save notifies nobody
set_config_body(schema, ok) ==
    /\ save_config(schema, ok)
    /\ watchers' = IF ok THEN Notify(schema) ELSE watchers

\* ConfigManager.set_config
set_config(schema, ok) ==
    /\ set_config_body(schema, ok)
    /\ last' = [op |-> "set_config", ret |-> IF ok THEN "True" ELSE "RuntimeError"]
    /\ UNCHANGED consensusVars

\* ConfigManager.get_config: the storage's answer, any exception turned into
\* RuntimeError; version "latest" stands for version=None
get_config(name, version) ==
    LET r == IF version = "latest"
             THEN get_latest_config(name)
             ELSE get_config_by_version(name, version)
    IN IF r.ok THEN r ELSE Raise("RuntimeError")

\* ConfigManager.watch_config: a new empty queue, appended to the name's list
watch_config(name) ==
    /\ Len(watchers["a"]) + Len(watchers["b"]) < MaxWatchers
    /\ watchers' = [watchers EXCEPT ![name] =
                       Append(@, [items |-> <<>>, since |-> Len(Commits(name))])]
    /\ last' = [op |-> "watch_config", ret |-> "queue"]
    /\ UNCHANGED <<backend, configs, redis, rows, log>>
    /\ UNCHANGED consensusVars

\* ------------------------------------------------------------ API handlers

\* POST /configs: always version 1
create_config(name, data, ok) ==
    /\ set_config_body([name |-> name, version |-> 1, data |-> data], ok)
    /\ last' = [op |-> "create_config", ret |-> IF ok THEN "schema" ELSE "HTTP 500"]
    /\ UNCHANGED consensusVars

\* PUT /configs/{name}: the latest record's version field plus one
update_config(name, data, ok) ==
    LET latest == get_config(name, "latest")
    IN /\ IF latest.ok
          THEN /\ latest.value.version + 1 \in Versions
               /\ set_config_body([name |-> name, version |-> latest.value.version + 1,
                                   data |-> data], ok)
               /\ last' = [op |-> "update_config",
                           ret |-> IF ok THEN "schema" ELSE "HTTP 500"]
          ELSE /\ ok
               /\ last' = [op |-> "update_config", ret |-> "HTTP 500"]
               /\ UNCHANGED storeVars
       /\ UNCHANGED consensusVars

\* ------------------------------------------------------------ propose / apply

\* propose_config without its role test
propose_config_any_role(n, config, ok) ==
    /\ save_config(config, ok)
    /\ last' = [op |-> "propose_config", ret |-> IF ok THEN "True" ELSE "False"]
    /\ UNCHANGED watchers
    /\ UNCHANGED consensusVars

\* ConsensusNode.propose_config
propose_config(n, config, ok) ==
    /\ IF role[n] # LEADER
       THEN /\ ok
            /\ last' = [op |-> "propose_config", ret |-> "False"]
            /\ UNCHANGED storeVars
       ELSE /\ save_config(config, ok)
            /\ last' = [op |-> "propose_config", ret |-> IF ok THEN "True" ELSE "False"]
            /\ UNCHANGED watchers
    /\ UNCHANGED consensusVars

\* ConsensusNode.apply_config
apply_config(n, config, ok) ==
    /\ save_config(config, ok)
    /\ last' = [op |-> "apply_config", ret |-> IF ok THEN "True" ELSE "False"]
    /\ UNCHANGED watchers
    /\ UNCHANGED consensusVars

\* ------------------------------------------------------------ the cluster

StoreInit ==
    /\ configs = [nm \in Names |-> <<>>]
    /\ redis = {}
    /\ rows = {}
    /\ watchers = [nm \in Names |-> <<>>]
    /\ log = <<>>
    /\ last = [op |-> "none", ret |-> "None"]

\* the network of a cluster: whole, or one member cut off from the others
Networks(members) == {{}} \cup {{n} : n \in members}

InitCluster ==
    /\ \E members \in Clusters :
          /\ ConsensusNode_init(members)
          /\ isolated \in Networks(members)
    /\ backend = "memory"
    /\ StoreInit

NextCluster ==
    \/ \E n \in Nodes : start(n)
    \/ \E n \in Nodes : election_timer_expiry(n)
    \/ \E n \in Nodes : trigger_election_finish(n)
    \/ \E n \in Nodes : send_heartbeat(n)

SpecCluster == InitCluster /\ [][NextCluster]_vars

\* ------------------------------------------------------------ elections

\* the clusters on a whole network, the peers answering the vote requests
\* in any way
InitElection ==
    /\ \E members \in Clusters : ConsensusNode_init(members)
    /\ isolated = {}
    /\ backend = "memory"
    /\ StoreInit

NextElection ==
    \/ \E n \in Nodes : start(n)
    \/ \E n \in Nodes : election_timer_expiry(n)
    \/ \E n \in Nodes : trigger_election_answers(n)

SpecElection == InitElection /\ [][NextElection]_vars

\* asyncio ends every sleep and gather returns once every request is done
SpecElectionFair ==
    /\ SpecElection
    /\ \A n \in Nodes : WF_vars(election_timer_expiry(n))
    /\ \A n \in Nodes : WF_vars(trigger_election_answers(n))

\* ------------------------------------------------------------ one process

\* the process of the tests: node 1 of the largest cluster, over any backend
Init ==
    /\ ConsensusNode_init(Nodes)
    /\ isolated = {}
    /\ backend \in Backends
    /\ StoreInit

Next ==
    \/ start(Local)
    \/ election_timer_expiry(Local)
    \/ trigger_election_finish(Local)
    \/ \E nm \in Names : watch_config(nm)
    \/ \E nm \in Names, d \in Data, ok \in BOOLEAN : create_config(nm, d, ok)
    \/ \E nm \in Names, d \in Data, ok \in BOOLEAN : update_config(nm, d, ok)
    \/ \E c \in ConfigSchema, ok \in BOOLEAN : apply_config(Local, c, ok)
    \/ \E c \in ConfigSchema, ok \in BOOLEAN : propose_config(Local, c, ok)
    \/ \E c \in ConfigSchema, ok \in BOOLEAN : set_config(c, ok)

Spec == Init /\ [][Next]_vars

\* ------------------------------------------------------------ one node

\* the ConsensusNode and its storage alone: no ConfigManager calls
NextNode ==
    \/ start(Local)
    \/ election_timer_expiry(Local)
    \/ trigger_election_finish(Local)
    \/ send_heartbeat(Local)
    \/ \E c \in ConfigSchema, ok \in BOOLEAN : apply_config(Local, c, ok)
    \/ \E c \in ConfigSchema, ok \in BOOLEAN : propose_config(Local, c, ok)

SpecNode == Init /\ [][NextNode]_vars

\* ------------------------------------------------------------ stepping down

\* the clusters, messages of higher terms reaching the nodes
NextStepDown ==
    \/ \E n \in Nodes : start(n)
    \/ \E n \in Nodes : election_timer_expiry(n)
    \/ \E n \in Nodes : trigger_election_finish(n)
    \/ \E n \in Nodes : send_heartbeat(n)
    \/ \E n \in Nodes, term \in 1..MaxTerm : step_down(n, term)

SpecStepDown == InitElection /\ [][NextStepDown]_vars

\* ------------------------------------------------------------ the manager

\* the ConfigManager alone over any backend: subscriptions and publications
NextManager ==
    \/ \E nm \in Names : watch_config(nm)
    \/ \E c \in ConfigSchema, ok \in BOOLEAN : set_config(c, ok)

SpecManager == Init /\ [][NextManager]_vars

\* ------------------------------------------------------------ claims

Range(q) == {q[i] : i \in DOMAIN q}

\* the records the store of the backend in use holds
Stored ==
    IF backend = "memory" THEN UNION {Range(configs[nm]) : nm \in Names} ELSE Keyed

\* the store holds a record with the (name, version) of c and another document
Conflicts(c) == \E r \in Stored : SameKey(r, c) /\ r.data # c.data

\* the call that returned last is an apply_config of c that stored it
JustApplied(c) ==
    /\ last = [op |-> "apply_config", ret |-> "True"]
    /\ log # <<>> /\ log[Len(log)] = c

\* the versions and list positions a reader asks for
Lookups == Versions \cup {0}

\* C1: no two distinct nodes are both LEADER with the same current_term.
C1_OneLeaderPerTerm ==
    \A m, n \in Nodes :
        (m # n /\ role[m] = LEADER /\ role[n] = LEADER)
            => current_term[m] # current_term[n]

\* C2: the version fields of the records stored for a name, in commit order,
\* go up by exactly 1 from each record to the next (no gap, no duplicate).
C2_VersionsIncreaseByOne ==
    \A nm \in Names : \A i \in 1..(Len(Commits(nm)) - 1) :
        Commits(nm)[i + 1].version = Commits(nm)[i].version + 1

\* C3: a propose_config call on a node whose role is not LEADER returns False
\* and changes neither the store nor the watcher queues.
C3_ProposeNotLeaderFails ==
    [][\A c \in ConfigSchema, ok \in BOOLEAN :
          (role[Local] # LEADER /\ propose_config(Local, c, ok))
              => (last'.ret = "False" /\ UNCHANGED storeVars)]_vars

\* C3 witness: propose_config has returned False on a CANDIDATE node whose
\* store already holds a record
C3_Witness ==
    /\ last = [op |-> "propose_config", ret |-> "False"]
    /\ role[Local] = CANDIDATE
    /\ Stored # {}

\* C4: every queue handed out by watch_config(name) holds exactly the records
\* committed for the name since it was handed out, once each, in commit order.
C4_WatchDeliversEveryCommit ==
    \A nm \in Names : \A i \in DOMAIN watchers[nm] :
        watchers[nm][i].items
            = SubSeq(Commits(nm), watchers[nm][i].since + 1, Len(Commits(nm)))

\* C5: no node grants its vote to two different candidates in the same term.
C5_OneVotePerTerm ==
    \A v, w \in granted : (v[1] = w[1] /\ v[2] = w[2]) => v[3] = w[3]

\* C6: what get_config_by_version returns for a (name, version) never changes
\* once it returns a record.
C6_StoredVersionNeverChanges ==
    [][\A nm \in Names, v \in Lookups :
          get_config_by_version(nm, v).ok
              => get_config_by_version(nm, v)' = get_config_by_version(nm, v)]_vars

\* C7: a propose_config call that returns True has appended the record to the
\* store and put it on every queue then watching its name.
C7_ProposePublishes ==
    [][\A c \in ConfigSchema :
          (propose_config(Local, c, TRUE) /\ last'.ret = "True")
              => /\ log' = Append(log, c)
                 /\ watchers' = Notify(c)]_vars

\* C8: an apply_config of the record that the apply_config just before it
\* stored (the second apply of the same version) leaves the store as it is.
C8_ApplyIdempotent ==
    [][\A c \in ConfigSchema, ok \in BOOLEAN :
          (JustApplied(c) /\ apply_config(Local, c, ok))
              => UNCHANGED <<configs, redis, rows>>]_vars

\* C9: apply_config of a record whose (name, version) is in the store with a
\* different document fails and leaves the store as it is.
C9_ApplyConflictFails ==
    [][\A c \in ConfigSchema, ok \in BOOLEAN :
          (Conflicts(c) /\ apply_config(Local, c, ok))
              => (last'.ret = "False" /\ UNCHANGED <<configs, redis, rows>>)]_vars

\* C10: a node without peers is LEADER once its first election has run.
C10_SingleNodeBecomesLeader ==
    \A n \in Nodes :
        (peers[n] = {} /\ current_term[n] >= 1 /\ pc[n] # "gather")
            => role[n] = LEADER

\* C11: in a three-node cluster, a node cut off from the other two never
\* becomes LEADER.
C11_IsolatedNeverLeader ==
    \A n \in Nodes :
        (n \in isolated /\ Cardinality(peers[n]) = 2) => role[n] # LEADER

\* C12: a peer that is asked for its vote in a term above its own current_term
\* has that term as current_term, and role FOLLOWER, when the exchange ends.
C12_HigherTermAdopted ==
    [][\A n \in Nodes :
          trigger_election_finish(n)
              => \A p \in peers[n] :
                    current_term[p] < current_term[n]
                        => (current_term'[p] = current_term[n] /\ role'[p] = FOLLOWER)]_vars

\* C13: every node starts as FOLLOWER in term 0, and no step (timer expiry,
\* election, heartbeat, propose_config, apply_config) lowers a current_term.
C13_TermNeverDecreases ==
    /\ \A n \in Nodes : current_term[n] = 0 /\ role[n] = FOLLOWER
    /\ [][\A n \in Nodes : current_term'[n] >= current_term[n]]_vars

\* C13 witness: the node's term has moved, and heartbeats and an apply_config
\* have followed
C13_Witness ==
    /\ current_term[Local] = 1
    /\ heartbeats[Local] >= 1
    /\ last.op = "apply_config"

\* C14: with InMemoryStorage, after n saves for a name list_config_versions
\* returns 0, 1, ..., n-1 whatever the version fields of the records are, and
\* the empty list for a name without saves.
C14_ListIsRangeOfSaves ==
    backend = "memory"
        => \A nm \in Names :
              list_config_versions(nm) = [i \in 1..Len(Commits(nm)) |-> i - 1]

\* C14 witness: two records saved for "a", neither with version field 0, are
\* listed as 0, 1 while "b", never saved, lists as empty
C14_Witness ==
    /\ backend = "memory"
    /\ Len(Commits("a")) = 2
    /\ \A i \in 1..2 : Commits("a")[i].version = 2
    /\ list_config_versions("a") = <<0, 1>>
    /\ list_config_versions("b") = <<>>

\* C15: with InMemoryStorage, get_latest_config returns the record saved last
\* for the name, and raises KeyError for a name without saves.
C15_LatestIsLastSaved ==
    backend = "memory"
        => \A nm \in Names :
              get_latest_config(nm)
                  = IF Commits(nm) = <<>>
                    THEN Raise("KeyError")
                    ELSE Ok(Commits(nm)[Len(Commits(nm))])

\* C15 witness: a save for "b" has followed the save for "a", and the latest
\* of "a" is still the record saved for "a"
C15_Witness ==
    /\ backend = "memory"
    /\ Len(log) = 2 /\ log[1].name = "a" /\ log[2].name = "b"
    /\ get_latest_config("a") = Ok(log[1])

\* the versions a reader may ask for, negative ones too
AskedVersions == (0 - MaxSaves)..MaxSaves

\* C16: get_config_by_version raises for every version that
\* list_config_versions does not list for the name, and returns a record for
\* every version it lists.
C16_UnlistedVersionNotFound ==
    \A nm \in Names, v \in AskedVersions :
        get_config_by_version(nm, v).ok <=> v \in Range(list_config_versions(nm))

\* an election of node n has ended: gather has returned and the votes are counted
ElectionEnded(n) == pc[n] \in {"timer", "heartbeat"} /\ role[n] # FOLLOWER

\* the peers that answered the last election of node n with a grant
Grants(n) == {p \in peers[n] : results[n][p] = Ok(TRUE)}

\* C17: in a cluster of n members an election ends with the node LEADER
\* exactly when the grants, the node's own vote counted, are at least
\* floor(n/2) + 1.
C17_LeaderIffQuorum ==
    \A n \in Nodes :
        ElectionEnded(n)
            => (role[n] = LEADER
                   <=> Cardinality(Grants(n)) + 1
                          >= ((Cardinality(peers[n]) + 1) \div 2) + 1)

\* C18: a node that its first election left in role CANDIDATE starts, at a
\* later expiry of the election timer, the election of the next term.
C18_CandidateRetries ==
    \A n \in Nodes :
        (role[n] = CANDIDATE /\ pc[n] = "timer" /\ current_term[n] = 1)
            ~> (current_term[n] = 2 /\ pc[n] = "gather")

\* C19: every _send_heartbeat call is made while the role is LEADER, also when
\* the role changed while the heartbeat loop slept.
C19_HeartbeatOnlyAsLeader ==
    [][\A n \in Nodes : send_heartbeat(n) => role[n] = LEADER]_vars

\* C20: a vote request that raised adds no grant, the grants of the other
\* peers are counted (the node is LEADER exactly when the True answers alone
\* exceed half the peers), and the election ends with the node's loops alive.
C20_RaisedVoteIsNoResponse ==
    \A n \in Nodes :
        /\ role[n] # FOLLOWER => pc[n] \in {"gather", "timer", "heartbeat"}
        /\ ElectionEnded(n) =>
              /\ role[n] = LEADER
                    <=> Cardinality(Grants(n)) > Cardinality(peers[n]) \div 2
              /\ \A p \in peers[n] :
                    <<p, current_term[n], n>> \in granted <=> p \in Grants(n)

\* C20 witness: an election has ended with one request raised and the grant
\* of the other peer recorded
C20_Witness ==
    \E n \in Nodes : \E p, q \in peers[n] :
        /\ ElectionEnded(n)
        /\ results[n][p] = Raise("TimeoutError")
        /\ results[n][q] = Ok(TRUE)
        /\ <<q, current_term[n], n>> \in granted
        /\ pc[n] = "timer"

\* C21: set_config completes whatever the queues hold unread: a set_config
\* whose save succeeds can always take its step, and the step returns True
\* with the record put on every queue of the name.
C21_SetConfigNeverBlocks ==
    /\ [](\A c \in ConfigSchema :
             Len(log) < MaxSaves => ENABLED set_config(c, TRUE))
    /\ [][\A c \in ConfigSchema :
             set_config(c, TRUE)
                 => /\ last'.ret = "True"
                    /\ \A i \in DOMAIN watchers[c.name] :
                          watchers'[c.name][i].items
                              = Append(watchers[c.name][i].items, c)]_vars

\* C21 witness: two watchers of "a", neither of which has read anything, each
\* hold two records, the second put by a set_config that returned True
C21_Witness ==
    /\ Len(watchers["a"]) = 2
    /\ \A i \in 1..2 : Len(watchers["a"][i].items) = 2
    /\ last = [op |-> "set_config", ret |-> "True"]

\* C22: a set_config whose save raises ends in RuntimeError and leaves every
\* queue of every name as it was; the queues hold committed records only.
C22_FailedSaveNotPublished ==
    /\ [](\A nm \in Names : \A i \in DOMAIN watchers[nm] :
             Range(watchers[nm][i].items) \subseteq Range(log))
    /\ [][\A c \in ConfigSchema :
             set_config(c, FALSE)
                 => (last'.ret = "RuntimeError" /\ UNCHANGED watchers)]_vars

\* C22 witness: a set_config has raised while "a" is watched, and the queue
\* of the watcher is empty
C22_Witness ==
    /\ last = [op |-> "set_config", ret |-> "RuntimeError"]
    /\ Len(watchers["a"]) >= 1
    /\ watchers["a"][1].items = <<>>
    /\ log = <<>>

====
